---- MODULE Spec2Model ----
(***************************************************************************)
(* Walk-forward pair selection (main.py) with its three selection          *)
(* strategies (NoClusterPairSelection.py, ThemeClusterPairSelection.py,    *)
(* OpticsPairSelection.py) and the pair statistics engine (utils.py).      *)
(*                                                                         *)
(* Dates are day numbers, timedeltas are numbers of days.  A float is a    *)
(* sequence: <<v>> is the number v and <<>> is NaN, so that every          *)
(* comparison against NaN is false, as in numpy/pandas.  Correlations and  *)
(* Hurst estimates are in tenths, p-values and AR(1) coefficients in       *)
(* hundredths, half-lives in days.                                         *)
(*                                                                         *)
(* The numerical libraries (adfuller, coint, AutoReg, pearsonr, OPTICS)    *)
(* are not re-implemented: the price panel carries, for every series and   *)
(* every pair of series, the values those routines return on it, and the   *)
(* code around them is modelled as written.                                *)
(***************************************************************************)
EXTENDS Integers, Sequences, FiniteSets, TLC

VARIABLES
    formation_period,               \* main.py:107  timedelta(days=formation_period_days)
    trading_period,                 \* main.py:109
    step_size,                      \* main.py:110
    df,                             \* main.py:98   the loaded price panel
    etf_info,                       \* ThemeClusterPairSelection.py:104  energy_etf_descriptions.csv
    set_order,                      \* ThemeClusterPairSelection.py:100  iteration order of set(...) in this process
    data_start_date,                \* main.py:112
    data_end_date,                  \* main.py:113
    formation_start_date,           \* main.py:115
    formation_end_date,             \* main.py:116
    trading_start_date,             \* main.py:117
    trading_end_date,               \* main.py:118
    actual_trading_period_days,     \* main.py:131
    embargo_times,                  \* main.py:135
    all_selected_pairs,             \* main.py:121
    selected_pairs_no_cluster,      \* main.py:138
    selected_pairs_theme_cluster,   \* main.py:144
    selected_pairs_optics_cluster,  \* main.py:151
    calls,                          \* the calculate_pair_statistics calls of the current window
    windows_run,                    \* number of iterations of the while loop entered so far
    pc                              \* position in main()

vars == <<formation_period, trading_period, step_size, df, etf_info, set_order,
          data_start_date, data_end_date,
          formation_start_date, formation_end_date, trading_start_date, trading_end_date,
          actual_trading_period_days, embargo_times, all_selected_pairs,
          selected_pairs_no_cluster, selected_pairs_theme_cluster,
          selected_pairs_optics_cluster, calls, windows_run, pc>>

inputs == <<formation_period, trading_period, step_size, df, etf_info, set_order,
            data_start_date, data_end_date>>

-----------------------------------------------------------------------------
(* Floats *)

NaN == <<>>
Num(v) == <<v>>
IsNaN(x) == Len(x) = 0
GE(x, y) == Len(x) = 1 /\ Len(y) = 1 /\ x[1] >= y[1]
LE(x, y) == Len(x) = 1 /\ Len(y) = 1 /\ x[1] <= y[1]
LT(x, y) == Len(x) = 1 /\ Len(y) = 1 /\ x[1] < y[1]

Max2(a, b) == IF a >= b THEN a ELSE b
Min2(a, b) == IF a <= b THEN a ELSE b

RECURSIVE SumSeq(_)
SumSeq(s) == IF s = <<>> THEN 0 ELSE s[1] + SumSeq(Tail(s))

RECURSIVE Concat(_)
Concat(ss) == IF ss = <<>> THEN <<>> ELSE ss[1] \o Concat(Tail(ss))

Range(s) == {s[i] : i \in 1..Len(s)}

-----------------------------------------------------------------------------
(* Program constants *)

formation_period_days == 730
trading_period_days == 182
step_size_days == 182
correlation_threshold == 8
cointegration_pvalue_threshold == 5
hurst_exponent_threshold == 5
min_half_life == 5
significance_level == 5
pct_embargo == 1                 \* main.py:105, in hundredths
n_components == 10
strategy_lags == <<20, 50, 100, 200>>
discrete_lags == <<20, 100, 250, 500, 1000>>

-----------------------------------------------------------------------------
(* Bounds of the model *)

\* the panels of the walk-forward family allow at most this many windows
MaxWindows == 3

\* The instruments.  Tickers is in alphabetical order; Absent is a ticker
\* that the thematic mapping may list although the panel has no column for it.
Tickers == <<"A", "B", "C", "D", "E", "F", "G", "H", "I", "J">>
Absent == "Z"
Rank(t) == CHOOSE i \in 1..Len(Tickers) : Tickers[i] = t

n_tickers == Len(Tickers)
Pairs == {{Tickers[i], Tickers[j]} : i \in 1..n_tickers, j \in 1..n_tickers} \ {{t} : t \in Range(Tickers)}
LagSet == Range(strategy_lags) \cup Range(discrete_lags)

-----------------------------------------------------------------------------
(* The price panel df.                                                     *)
(*   first, last, stride, gap_lo, gap_hi : the date index: every stride-th *)
(*       day from first, without the days strictly between gap_lo and      *)
(*       gap_hi, and the day last;                                         *)
(*   columns : the '<ticker>_adj_close' columns, in the panel's order;     *)
(*   kind[t] : what the series of t looks like to the unit-root test;      *)
(*   pair[{t,u}] : what the routines return on the series of t and u;      *)
(*   labels[t] : the label OPTICS gives t (-1 is noise).                   *)
(* The values a window sees are those of the panel rotated by the window's *)
(* start date, so that successive windows see different statistics.        *)

\* number of multiples of s in a..b (a >= 0)
CountMult(a, b, s) == IF b < a THEN 0 ELSE (b \div s) - ((a + s - 1) \div s) + 1

\* rows of the index with offset lo..hi from its first date
GridRows(lo, hi) ==
    IF hi < lo THEN 0
    ELSE CountMult(lo, hi, df.stride)
         - CountMult(Max2(lo, df.gap_lo + 1 - df.first),
                     Min2(hi, df.gap_hi - 1 - df.first), df.stride)
         + (IF /\ lo <= df.last - df.first
               /\ df.last - df.first <= hi
               /\ (df.last - df.first) % df.stride # 0
            THEN 1 ELSE 0)

\* len(df[a:b]): label slicing of a sorted DatetimeIndex keeps both end points
SliceRows(a, b) == GridRows(Max2(a, df.first) - df.first, Min2(b, df.last) - df.first)

Shift(t, start) == Tickers[((Rank(t) - 1 + (start - df.first)) % n_tickers) + 1]

\* the spread of a series with itself
SelfPair == [corr |-> Num(10), coint12 |-> NaN, coint21 |-> NaN,
             hurst |-> [l \in LagSet |-> NaN], phi |-> NaN, hl |-> NaN, std |-> Num(0)]

PairData(t, u) == IF t = u THEN SelfPair ELSE df.pair[{t, u}]

\* a column of rows prices, labelled name, holding the prices of instrument id
SeriesOf(name, id, rows) ==
    [name |-> name, id |-> id, rows |-> rows,
     nunique |-> Min2(rows, df.kind[id].nunique),
     adf_pvalue |-> df.kind[id].adf_pvalue]

\* formation_data[col] of df[start:stop], carrying the label name
Series(name, ticker, formation_data) ==
    SeriesOf(name, Shift(ticker, formation_data.start),
             SliceRows(formation_data.start, formation_data.stop))

-----------------------------------------------------------------------------
(* utils.py *)

\* the judgement with p_value >= significance_level in the place of >
is_not_stationary_at_level(series) ==
    IF series.nunique <= 1 THEN TRUE
    ELSE IF IsNaN(series.adf_pvalue) THEN TRUE
    ELSE series.adf_pvalue[1] >= significance_level

\* adfuller returns a p-value, or raises (adf_pvalue is then NaN); both except
\* clauses return True
is_not_stationary(series) ==
    IF series.nunique <= 1 THEN TRUE
    ELSE IF IsNaN(series.adf_pvalue) THEN TRUE
    ELSE series.adf_pvalue[1] > significance_level

\* coint(series1, series2): <<tstat, pvalue>>, or <<>> when it raises ValueError
coint(series1, series2) ==
    IF Rank(series1.id) <= Rank(series2.id)
    THEN PairData(series1.id, series2.id).coint12
    ELSE PairData(series1.id, series2.id).coint21

\* tstat, pvalue = coint(...) inside try; np.nan, np.nan in the except clause
tstat_of(test) == IF test = <<>> THEN NaN ELSE Num(test[1])
pvalue_of(test) == IF test = <<>> THEN NaN ELSE Num(test[2])

\* the selection with tstat2 <= tstat1 in the place of tstat2 < tstat1
egle_granger_select_second_on_tie(test1, test2) ==
    IF IsNaN(tstat_of(test1))
         \/ (~IsNaN(tstat_of(test2)) /\ LE(tstat_of(test2), tstat_of(test1)))
    THEN [tstat |-> tstat_of(test2), pvalue |-> pvalue_of(test2)]
    ELSE [tstat |-> tstat_of(test1), pvalue |-> pvalue_of(test1)]

\* line 81: the direction returned, given the outcome of both directions
egle_granger_select(test1, test2) ==
    IF IsNaN(tstat_of(test1))
         \/ (~IsNaN(tstat_of(test2)) /\ LT(tstat_of(test2), tstat_of(test1)))
    THEN [tstat |-> tstat_of(test2), pvalue |-> pvalue_of(test2)]
    ELSE [tstat |-> tstat_of(test1), pvalue |-> pvalue_of(test1)]

egle_granger_test_bidirectional(series1, series2) ==
    IF series1.nunique <= 1 \/ series2.nunique <= 1
    THEN [tstat |-> NaN, pvalue |-> NaN]
    ELSE egle_granger_select(coint(series1, series2), coint(series2, series1))

\* series1 - series2
Spread(series1, series2) ==
    [len |-> series1.rows, data |-> PairData(series1.id, series2.id)]

\* the dict with the test lag > len(p) in the place of lag >= len(p)
calculate_hurst_exponent_lag_of_length(p, lags) ==
    [lag \in {l \in Range(lags) : ~(l > p.len)} |-> p.data.hurst[lag]]

\* the dict lag -> estimate, for the lags smaller than len(p)
calculate_hurst_exponent(p, lags) ==
    [lag \in {l \in Range(lags) : ~(l >= p.len)} |-> p.data.hurst[lag]]

\* AutoReg(spread, lags=1).fit(), outside any try: with 2 observations one is
\* left for the constant and the lag, and the model raises ValueError
AutoReg_raises(spread) == spread.len - 1 < 2

\* calculate_half_life raises: the guard on len(spread) passed and AutoReg raised
calculate_half_life_raises(spread) == ~(spread.len < 2) /\ AutoReg_raises(spread)

\* ln(2)/(-ln(phi)) is not computed: for 0 < phi < 1 the panel carries its value hl
calculate_half_life(spread) ==
    IF spread.len < 2 THEN NaN
    ELSE IF GE(spread.data.phi, Num(100)) \/ LE(spread.data.phi, Num(-100)) THEN NaN
    ELSE IF IsNaN(spread.data.phi) \/ LT(spread.data.phi, Num(0)) THEN NaN  \* log of a negative number
    ELSE IF spread.data.phi = Num(0) THEN Num(0)                            \* lambda is +inf
    ELSE spread.data.hl

\* pearsonr of the pct_change().dropna() returns: raises ValueError under 2 returns
pearsonr_raises(series1, series2) == series1.rows - 1 < 2

pearsonr(series1, series2) ==
    IF series1.nunique <= 1 \/ series2.nunique <= 1 THEN NaN
    ELSE PairData(series1.id, series2.id).corr

\* lines 166-196: the statistics of a pair that passed the stationarity gate
pair_statistics(series1, series2, coint_test, spread) ==
    [tag |-> "stats",
     Pair |-> <<series1.name, series2.name>>,
     Correlation |-> pearsonr(series1, series2),
     Cointegration_TStats |-> coint_test.tstat,
     Cointegration_PValue |-> coint_test.pvalue,
     Hurst_Exponent |-> calculate_hurst_exponent(spread, discrete_lags),
     Half_Life |-> calculate_half_life(spread),
     Spread_STD |-> spread.data.std]

\* the function with a gate that lets a pair through when one series is non-stationary
calculate_pair_statistics_either(series1, series2) ==
    IF series1.rows = 0 THEN [tag |-> "None"]
    ELSE IF ~(is_not_stationary(series1) \/ is_not_stationary(series2)) THEN [tag |-> "None"]
    ELSE IF calculate_half_life_raises(Spread(series1, series2))
              \/ pearsonr_raises(series1, series2) THEN [tag |-> "raise"]
    ELSE pair_statistics(series1, series2,
                         egle_granger_test_bidirectional(series1, series2),
                         Spread(series1, series2))

\* the result is None, a dict (tag "stats"), or the ValueError of AutoReg or of
\* pearsonr, neither of them called inside a try (tag "raise")
calculate_pair_statistics(series1, series2) ==
    IF series1.rows = 0 THEN [tag |-> "None"]
    ELSE IF ~(is_not_stationary(series1) /\ is_not_stationary(series2)) THEN [tag |-> "None"]
    ELSE IF calculate_half_life_raises(Spread(series1, series2))
              \/ pearsonr_raises(series1, series2) THEN [tag |-> "raise"]
    ELSE pair_statistics(series1, series2,
                         egle_granger_test_bidirectional(series1, series2),
                         Spread(series1, series2))

-----------------------------------------------------------------------------
(* Helpers of the three strategies: Python and pandas built-ins *)
\* the names in descending order, sorted(..., reverse=True)
RECURSIVE sorted_descending(_)
sorted_descending(S) ==
    IF S = {} THEN <<>>
    ELSE LET m == CHOOSE x \in S : \A y \in S : Rank(x) >= Rank(y)
         IN  <<m>> \o sorted_descending(S \ {m})

\* sorted(list(set(names)))
RECURSIVE sorted(_)
sorted(S) ==
    IF S = {} THEN <<>>
    ELSE LET m == CHOOSE x \in S : \A y \in S : Rank(x) <= Rank(y)
         IN  <<m>> \o sorted(S \ {m})

\* the pairs of neighbours, list(zip(s, s[1:]))
combinations_of_neighbours(s) == [j \in 1..(Len(s) - 1) |-> <<s[j], s[j + 1]>>]

\* list(itertools.combinations(s, 2))
RECURSIVE combinations(_)
combinations(s) ==
    IF Len(s) < 2 THEN <<>>
    ELSE [j \in 1..(Len(s) - 1) |-> <<s[1], s[j + 1]>>] \o combinations(Tail(s))

IndexOf(s, x) == CHOOSE i \in 1..Len(s) : s[i] = x /\ \A j \in 1..(i - 1) : s[j] # x

\* insertion of v into an ascending sequence
RECURSIVE Insert(_, _)
Insert(s, v) ==
    IF s = <<>> THEN <<v>>
    ELSE IF v <= s[1] THEN <<v>> \o s ELSE <<s[1]>> \o Insert(Tail(s), v)

RECURSIVE Ascending(_)
Ascending(s) == IF s = <<>> THEN <<>> ELSE Insert(Ascending(Tail(s)), s[1])

\* the members of a set of integers, ascending
RECURSIVE AscendingSet(_)
AscendingSet(S) ==
    IF S = {} THEN <<>>
    ELSE LET m == CHOOSE x \in S : \A y \in S : x <= y
         IN  <<m>> \o AscendingSet(S \ {m})

\* the middle of an ascending sequence, doubled
middle2(present) ==
    IF Len(present) = 0 THEN NaN
    ELSE IF Len(present) % 2 = 1 THEN Num(2 * present[(Len(present) + 1) \div 2])
    ELSE Num(present[Len(present) \div 2] + present[(Len(present) \div 2) + 1])

\* the values of a column that are not NaN
notna(values) == SelectSeq(values, LAMBDA v : ~IsNaN(v))
numbers(values) == [i \in 1..Len(values) |-> values[i][1]]

\* Series.median(): NaN entries are skipped; NaN for no entries.  The value
\* returned is TWICE the median, which keeps the mean of the two middle entries
\* of an even count exact.
median2(values) == middle2(Ascending(numbers(notna(values))))

\* Spread_STD <= threshold, for a threshold given as twice its value; a
\* threshold of None (no row) or NaN compares false
std_le(spread_std, threshold2) ==
    Len(spread_std) = 1 /\ Len(threshold2) = 1 /\ 2 * spread_std[1] <= threshold2[1]

\* sum(values) over the keys of a dict, in ascending key order
sum_values(x, keys) == SumSeq([i \in 1..Len(keys) |-> x[keys[i]][1]])

\* np.mean(list(x.values())): <<sum, count>>, NaN for an empty dict or a NaN value
np_mean(x) ==
    IF DOMAIN x = {} THEN NaN
    ELSE IF \E k \in DOMAIN x : IsNaN(x[k]) THEN NaN
    ELSE <<sum_values(x, AscendingSet(DOMAIN x)), Cardinality(DOMAIN x)>>

\* mean < threshold, the mean given as <<sum, count>>
mean_lt(mean, threshold) == Len(mean) = 2 /\ mean[1] < threshold * mean[2]

-----------------------------------------------------------------------------
(* What the three strategies share by copy: the relabelled frame, the loop *)
(* body around calculate_pair_statistics, and the metadata columns         *)

\* adj_close_df = formation_data[adj_close_cols]; adj_close_df.columns = etf_names:
\* the i-th column keeps its prices and gets the i-th name
Relabelled(formation_data, etf_names) ==
    [columns |-> etf_names, source |-> df.columns, data |-> formation_data]

\* adj_close_df[etf]
Column(adj_close_df, etf) ==
    Series(etf, adj_close_df.source[IndexOf(adj_close_df.columns, etf)], adj_close_df.data)

\* the dict appended to pair_results: the statistics, the Hurst map of the
\* strategy's own lags and its mean, and the Segment or Cluster (NaN where the
\* strategy writes none)
result_row(stats, hurst_results, group) ==
    [Pair |-> stats.Pair,
     Correlation |-> stats.Correlation,
     Cointegration_TStats |-> stats.Cointegration_TStats,
     Cointegration_PValue |-> stats.Cointegration_PValue,
     Hurst_Exponent |-> hurst_results,
     Average_Hurst |-> np_mean(hurst_results),
     Half_Life |-> stats.Half_Life,
     Spread_STD |-> stats.Spread_STD,
     Group |-> group]

\* one pass of the loop body, given what calculate_pair_statistics returned
loop_body(series1, series2, stats, pair, group, method) ==
    [method |-> method, pair |-> pair, group |-> group,
     series1 |-> series1, series2 |-> series2, returned |-> stats.tag,
     row |-> IF stats.tag = "stats"
             THEN result_row(stats,
                             calculate_hurst_exponent(Spread(series1, series2), strategy_lags),
                             group)
             ELSE <<>>]

evaluate_series(series1, series2, pair, group, method) ==
    loop_body(series1, series2, calculate_pair_statistics(series1, series2),
              pair, group, method)

\* stats = calculate_pair_statistics(adj_close_df[etf1], adj_close_df[etf2]); if stats: ...
Evaluate(adj_close_df, pair, group, method) ==
    evaluate_series(Column(adj_close_df, pair[1]), Column(adj_close_df, pair[2]),
                    pair, group, method)

\* a ValueError leaves the loop at the first call that raises
cut_after_raise(all) ==
    IF \E i \in 1..Len(all) : all[i].returned = "raise"
    THEN SubSeq(all, 1, CHOOSE i \in 1..Len(all) :
                            /\ all[i].returned = "raise"
                            /\ \A j \in 1..(i - 1) : all[j].returned # "raise")
    ELSE all

\* the passes of the loop over the candidate pairs
Passes(adj_close_df, pairs, method) ==
    cut_after_raise([i \in 1..Len(pairs) |->
                        Evaluate(adj_close_df, pairs[i].pair, pairs[i].group, method)])

Raised(passes) == \E i \in 1..Len(passes) : passes[i].returned = "raise"

\* the candidate pairs of one group
Grouped(pairs, group) == [i \in 1..Len(pairs) |-> [pair |-> pairs[i], group |-> group]]

rows_of(kept) == [i \in 1..Len(kept) |-> kept[i].row]

\* pair_results, then results_df = pd.DataFrame(pair_results)
PairResults(passes) == rows_of(SelectSeq(passes, LAMBDA e : e.returned = "stats"))

\* results_df.dropna(subset=['Correlation'])
dropna_Correlation(results_df) == SelectSeq(results_df, LAMBDA r : ~IsNaN(r.Correlation))

Column_Spread_STD(rows) == [i \in 1..Len(rows) |-> rows[i].Spread_STD]

\* the metadata columns and the column order of the returned frame; only the
\* OPTICS strategy keeps a Cluster column
WithMetadata(row, method, fs, fe, ts, te) ==
    [Pair |-> row.Pair,
     Cluster |-> IF method = "Clustering using OPTICS" THEN Num(row.Group) ELSE NaN,
     Method |-> method,
     Correlation |-> row.Correlation,
     Cointegration_TStats |-> row.Cointegration_TStats,
     Cointegration_PValue |-> row.Cointegration_PValue,
     Hurst_Exponent |-> row.Hurst_Exponent,
     Average_Hurst |-> row.Average_Hurst,
     Half_Life |-> row.Half_Life,
     Spread_STD |-> row.Spread_STD,
     Formation_Start |-> fs, Formation_End |-> fe,
     Trading_Start |-> ts, Trading_End |-> te]

\* the metadata with Trading_End set from trading_start_date
Tagged_trading_start_twice(selected_pairs, method, fs, fe, ts, te) ==
    [i \in 1..Len(selected_pairs) |-> WithMetadata(selected_pairs[i], method, fs, fe, ts, ts)]

Tagged(selected_pairs, method, fs, fe, ts, te) ==
    [i \in 1..Len(selected_pairs) |-> WithMetadata(selected_pairs[i], method, fs, fe, ts, te)]

\* what a strategy did: whether it raised, the calls it made, the frame returned
Outcome(passes, selected) ==
    IF Raised(passes) THEN [raised |-> TRUE, calls |-> passes, selected |-> <<>>]
    ELSE [raised |-> FALSE, calls |-> passes, selected |-> selected]

Nothing == [raised |-> FALSE, calls |-> <<>>, selected |-> <<>>]

-----------------------------------------------------------------------------
(* NoClusterPairSelection.py *)

\* the criteria without the comparison against the median
no_clustering_criteria_without_median(r, spread_std_threshold, max_half_life) ==
    /\ GE(r.Correlation, Num(correlation_threshold))
    /\ LE(r.Cointegration_PValue, Num(cointegration_pvalue_threshold))
    /\ mean_lt(r.Average_Hurst, hurst_exponent_threshold)
    /\ GE(r.Half_Life, Num(min_half_life))
    /\ LE(r.Half_Life, Num(max_half_life))

no_clustering_criteria(r, spread_std_threshold, max_half_life) ==
    /\ GE(r.Correlation, Num(correlation_threshold))
    /\ LE(r.Cointegration_PValue, Num(cointegration_pvalue_threshold))
    /\ std_le(r.Spread_STD, spread_std_threshold)
    /\ mean_lt(r.Average_Hurst, hurst_exponent_threshold)
    /\ GE(r.Half_Life, Num(min_half_life))
    /\ LE(r.Half_Life, Num(max_half_life))

\* line 54: the median over results_df, None for an empty frame
no_clustering_threshold(results_df) ==
    IF results_df # <<>> THEN median2(Column_Spread_STD(results_df)) ELSE NaN

\* lines 63-70
no_clustering_selected(results_df, trading_days) ==
    LET spread_std_threshold == no_clustering_threshold(results_df)
    IN  SelectSeq(results_df,
                  LAMBDA r : no_clustering_criteria(r, spread_std_threshold, trading_days))

\* lines 43-89, given the passes of the loop
no_clustering_frame(passes, fs, fe, ts, te, trading_days) ==
    Outcome(passes,
            Tagged(no_clustering_selected(dropna_Correlation(PairResults(passes)),
                                          trading_days),
                   "No Clustering", fs, fe, ts, te))

\* lines 19-41, given etf_names
no_clustering_passes(formation_data, etf_names) ==
    Passes(Relabelled(formation_data, etf_names),
           Grouped(combinations(etf_names), NaN), "No Clustering")

select_pairs_no_clustering(formation_data, fs, fe, ts, te, trading_days) ==
    IF df.columns = <<>> THEN Nothing
    ELSE no_clustering_frame(no_clustering_passes(formation_data, sorted(Range(df.columns))),
                             fs, fe, ts, te, trading_days)

-----------------------------------------------------------------------------
(* ThemeClusterPairSelection.py *)

\* Series.unique(): the values in order of first appearance
RECURSIVE unique(_)
unique(s) ==
    IF s = <<>> THEN <<>>
    ELSE IF s[Len(s)] \in Range(SubSeq(s, 1, Len(s) - 1))
    THEN unique(SubSeq(s, 1, Len(s) - 1))
    ELSE Append(unique(SubSeq(s, 1, Len(s) - 1)), s[Len(s)])

\* etf_info['Segment'].unique()
categories == unique([i \in 1..Len(etf_info) |-> etf_info[i].Segment])

tickers_of(rows) == [i \in 1..Len(rows) |-> rows[i].Ticker]

\* the selection with the comparison inverted
etfs_not_in_category(category) ==
    tickers_of(SelectSeq(etf_info, LAMBDA r : r.Segment # category))

\* etf_info[etf_info['Segment'] == category]['Ticker'].tolist()
etfs_in_category(category) ==
    tickers_of(SelectSeq(etf_info, LAMBDA r : r.Segment = category))

\* lines 114-115: the pair is passed over unless both names are columns
in_columns(adj_close_df, pair) ==
    ~(pair[1] \notin Range(adj_close_df.columns) \/ pair[2] \notin Range(adj_close_df.columns))

\* the pairs of a category that reach calculate_pair_statistics
theme_pairs(adj_close_df, category) ==
    Grouped(SelectSeq(combinations(etfs_in_category(category)),
                      LAMBDA pair : in_columns(adj_close_df, pair)),
            category)

theme_candidates(adj_close_df) ==
    Concat([c \in 1..Len(categories) |-> theme_pairs(adj_close_df, categories[c])])

theme_criteria(r, spread_std_threshold, trading_days) ==
    /\ GE(r.Correlation, Num(8))
    /\ LE(r.Cointegration_PValue, Num(5))
    /\ mean_lt(r.Average_Hurst, 5)
    /\ GE(r.Half_Life, Num(5))
    /\ LE(r.Half_Life, Num(trading_days))
    /\ std_le(r.Spread_STD, spread_std_threshold)

\* the selection without the test on the Segment column
theme_category_pairs_any_segment(results_df, category) == results_df

\* line 142
theme_category_pairs(results_df, category) ==
    SelectSeq(results_df, LAMBDA r : r.Group = category)

\* the filter keeping the first row that meets the criteria and no other
theme_filtered_pairs_first_only(category_pairs, trading_days) ==
    LET spread_std_threshold == median2(Column_Spread_STD(category_pairs))
        kept == SelectSeq(category_pairs,
                          LAMBDA r : theme_criteria(r, spread_std_threshold, trading_days))
    IN  IF kept = <<>> THEN <<>> ELSE <<kept[1]>>

\* lines 145-154
theme_filtered_pairs(category_pairs, trading_days) ==
    LET spread_std_threshold == median2(Column_Spread_STD(category_pairs))
    IN  SelectSeq(category_pairs,
                  LAMBDA r : theme_criteria(r, spread_std_threshold, trading_days))

\* lines 140-156
theme_selected(results_df, trading_days) ==
    Concat([c \in 1..Len(categories) |->
               theme_filtered_pairs(theme_category_pairs(results_df, categories[c]),
                                    trading_days)])

theme_frame(passes, fs, fe, ts, te, trading_days) ==
    Outcome(passes,
            Tagged(theme_selected(dropna_Correlation(PairResults(passes)), trading_days),
                   "Clustering by Segment", fs, fe, ts, te))

theme_passes(adj_close_df) ==
    Passes(adj_close_df, theme_candidates(adj_close_df), "Clustering by Segment")

select_pairs_theme_clustering(formation_data, fs, fe, ts, te, trading_days) ==
    theme_frame(theme_passes(Relabelled(formation_data, set_order)),
                fs, fe, ts, te, trading_days)

-----------------------------------------------------------------------------
(* OpticsPairSelection.py *)

\* PCA(n_components=10).fit_transform of the (instruments x return dates) matrix
\* raises ValueError when n_components exceeds either dimension
pca_raises(n_samples, n_features) == n_components > Min2(n_samples, n_features)

\* optics_model.labels_, one label per row of principal_df
optics_labels(adj_close_df) ==
    [i \in 1..Len(adj_close_df.columns) |->
        df.labels[Shift(adj_close_df.source[i], adj_close_df.data.start)]]

\* the labels without the discard of -1
optics_clusters_with_noise(labels) == AscendingSet(Range(labels))

\* set(labels) without -1, sorted
optics_clusters(labels) == AscendingSet(Range(labels) \ {-1})

names_at(adj_close_df, idx) == [k \in 1..Len(idx) |-> adj_close_df.columns[idx[k]]]

\* features_df[features_df['Cluster'] == cluster_label].index.tolist()
etfs_in_cluster(adj_close_df, labels, cluster_label) ==
    names_at(adj_close_df,
             SelectSeq([i \in 1..Len(labels) |-> i], LAMBDA i : labels[i] = cluster_label))

\* lines 55-58: a cluster of fewer than 2 members gives no pair
cluster_pairs_of(members, cluster_label) ==
    IF Len(members) < 2 THEN <<>> ELSE Grouped(combinations(members), cluster_label)

optics_pairs(adj_close_df, labels, cluster_label) ==
    cluster_pairs_of(etfs_in_cluster(adj_close_df, labels, cluster_label), cluster_label)

optics_candidates(adj_close_df, labels, clusters) ==
    Concat([c \in 1..Len(clusters) |-> optics_pairs(adj_close_df, labels, clusters[c])])

optics_criteria(r, spread_std_threshold, trading_days) ==
    /\ GE(r.Correlation, Num(8))
    /\ LE(r.Cointegration_PValue, Num(5))
    /\ mean_lt(r.Average_Hurst, 5)
    /\ GE(r.Half_Life, Num(5))
    /\ LE(r.Half_Life, Num(trading_days))
    /\ std_le(r.Spread_STD, spread_std_threshold)

\* line 94
optics_cluster_pairs(results_df, cluster_label) ==
    SelectSeq(results_df, LAMBDA r : r.Group = cluster_label)

\* lines 97-106
optics_filtered_pairs(cluster_pairs, trading_days) ==
    LET spread_std_threshold == median2(Column_Spread_STD(cluster_pairs))
    IN  SelectSeq(cluster_pairs,
                  LAMBDA r : optics_criteria(r, spread_std_threshold, trading_days))

\* lines 92-109
optics_selected(results_df, clusters, trading_days) ==
    Concat([c \in 1..Len(clusters) |->
               optics_filtered_pairs(optics_cluster_pairs(results_df, clusters[c]),
                                     trading_days)])

optics_frame(passes, clusters, fs, fe, ts, te, trading_days) ==
    Outcome(passes,
            Tagged(optics_selected(dropna_Correlation(PairResults(passes)), clusters,
                                   trading_days),
                   "Clustering using OPTICS", fs, fe, ts, te))

\* lines 46-126, given the labels of the fitted model
optics_clustered(adj_close_df, labels, clusters, fs, fe, ts, te, trading_days) ==
    IF clusters = <<>> THEN Nothing
    ELSE optics_frame(Passes(adj_close_df, optics_candidates(adj_close_df, labels, clusters),
                             "Clustering using OPTICS"),
                      clusters, fs, fe, ts, te, trading_days)

\* the strategy with the noise label -1 kept among the clusters
optics_fitted_with_noise(adj_close_df, fs, fe, ts, te, trading_days) ==
    optics_clustered(adj_close_df, optics_labels(adj_close_df),
                     optics_clusters_with_noise(optics_labels(adj_close_df)),
                     fs, fe, ts, te, trading_days)

\* lines 34-126, given the relabelled frame
optics_fitted(adj_close_df, fs, fe, ts, te, trading_days) ==
    optics_clustered(adj_close_df, optics_labels(adj_close_df),
                     optics_clusters(optics_labels(adj_close_df)),
                     fs, fe, ts, te, trading_days)

\* lines 20-32, given the number of rows of returns_df
optics_returns(formation_data, etf_names, returns_rows, fs, fe, ts, te, trading_days) ==
    IF returns_rows = 0 THEN Nothing
    ELSE IF pca_raises(Len(etf_names), returns_rows) THEN Nothing
    ELSE optics_fitted(Relabelled(formation_data, etf_names), fs, fe, ts, te, trading_days)

\* adj_close_df.pct_change().dropna(): one row fewer, none of an empty frame
returns_rows_of(rows) == IF rows = 0 THEN 0 ELSE rows - 1

select_pairs_optics_clustering(formation_data, fs, fe, ts, te, trading_days) ==
    IF df.columns = <<>> THEN Nothing
    ELSE optics_returns(formation_data, sorted(Range(df.columns)),
                        returns_rows_of(SliceRows(formation_data.start, formation_data.stop)),
                        fs, fe, ts, te, trading_days)

-----------------------------------------------------------------------------
(* The inputs: the bounded families of panels, mappings and parameters *)

\* what the unit-root test sees in a series: an integrated series (p = 0.06),
\* and the departures from it: p = 0.05, a constant series, a test that raises
PlainKind == [nunique |-> 2, adf_pvalue |-> Num(6)]
OddKinds == {[nunique |-> 2, adf_pvalue |-> Num(5)],
             [nunique |-> 1, adf_pvalue |-> NaN],
             [nunique |-> 2, adf_pvalue |-> NaN]}

\* the Hurst estimates of a spread, per lag
LowHurst == [l \in LagSet |-> Num(4)]
HighHurst == [l \in LagSet |-> Num(6)]
MixedHurst == [l \in LagSet |-> IF l = 20 THEN Num(2) ELSE Num(6)]

\* a pair that meets every fixed threshold, each at its boundary
PlainPair(std) ==
    [corr |-> Num(8), coint12 |-> <<-4, 5>>, coint21 |-> <<-3, 6>>,
     hurst |-> LowHurst, phi |-> Num(99), hl |-> Num(5), std |-> Num(std)]

\* the departures from it, one statistic at a time (T is the trading period)
OddPairs(std, T) ==
    LET p == PlainPair(std)
    IN  {[p EXCEPT !.corr = Num(7)],
         [p EXCEPT !.coint12 = <<>>, !.coint21 = <<>>],
         [p EXCEPT !.coint12 = <<>>],
         [p EXCEPT !.coint12 = <<-3, 6>>, !.coint21 = <<-4, 5>>],
         [p EXCEPT !.coint12 = <<-4, 6>>, !.coint21 = <<-4, 5>>],
         [p EXCEPT !.hurst = HighHurst],
         [p EXCEPT !.hurst = MixedHurst],
         [p EXCEPT !.phi = Num(100)],
         [p EXCEPT !.phi = Num(-50)],
         [p EXCEPT !.phi = Num(0)],
         [p EXCEPT !.hl = Num(4)],
         [p EXCEPT !.hl = Num(T)],
         [p EXCEPT !.hl = Num(T + 1)]}

PairOf(t, u) == {t, u}

\* the pairs with the low spread deviation
CheapSets == {{}, {PairOf("A", "B")}, {PairOf("A", "B"), PairOf("A", "C")},
              {PairOf("C", "D")}}

StdOf(pair, cheap) == IF pair \in cheap THEN 2 ELSE 6

\* the labellings OPTICS may return
Labellings ==
    {[t \in Range(Tickers) |-> -1],
     [t \in Range(Tickers) |-> IF t \in {"A", "B"} THEN 0
                               ELSE IF t \in {"C", "D"} THEN 1 ELSE -1],
     [t \in Range(Tickers) |-> IF t \in {"A", "B", "C"} THEN 1
                               ELSE IF t \in {"D", "E"} THEN 0 ELSE -1]}

\* the panels whose statistics depart from the plain ones in at most one
\* series (one of odd_tickers) or one pair (one of odd_pairs)
PanelData(odd_tickers, odd_pairs, cheaps, T) ==
    LET plain(cheap) == [p \in Pairs |-> PlainPair(StdOf(p, cheap))]
        kinds == [t \in Range(Tickers) |-> PlainKind]
    IN  {[kind |-> kinds, pair |-> plain(cheap)] : cheap \in cheaps}
        \cup {[kind |-> [kinds EXCEPT ![t] = k], pair |-> plain(cheap)] :
                 t \in odd_tickers, k \in OddKinds, cheap \in cheaps}
        \cup UNION {{[kind |-> kinds, pair |-> [plain(cheap) EXCEPT ![p] = o]] :
                        o \in OddPairs(StdOf(p, cheap), T)} :
                    p \in odd_pairs, cheap \in cheaps}

\* a panel in which the unit-root test of A raises and both regressions of
\* the pair C, D raise
NumericFailures ==
    [kind |-> [t \in Range(Tickers) |->
                  IF t = "A" THEN [nunique |-> 2, adf_pvalue |-> NaN] ELSE PlainKind],
     pair |-> [p \in Pairs |->
                  IF p = PairOf("C", "D")
                  THEN [PlainPair(6) EXCEPT !.coint12 = <<>>, !.coint21 = <<>>]
                  ELSE PlainPair(6)]]

\* a panel in which A is constant, the unit-root test of B raises and that
\* of C has the p-value 0.05
StationarityCases ==
    [kind |-> [t \in Range(Tickers) |->
                  IF t = "A" THEN [nunique |-> 1, adf_pvalue |-> NaN]
                  ELSE IF t = "B" THEN [nunique |-> 2, adf_pvalue |-> NaN]
                  ELSE IF t = "C" THEN [nunique |-> 2, adf_pvalue |-> Num(significance_level)]
                  ELSE PlainKind],
     pair |-> [p \in Pairs |-> PlainPair(6)]]

Panel(first, last, stride, gap, columns, data, labels) ==
    [first |-> first, last |-> last, stride |-> stride,
     gap_lo |-> gap[1], gap_hi |-> gap[2], columns |-> columns,
     kind |-> data.kind, pair |-> data.pair, labels |-> labels]

\* the rows of the thematic mapping
Rows(tickers, segment) == [i \in 1..Len(tickers) |-> [Ticker |-> tickers[i], Segment |-> segment]]

Reverse(s) == [i \in 1..Len(s) |-> s[Len(s) + 1 - i]]

-----------------------------------------------------------------------------
(* main.py: main() *)

\* lines 112-121, for a loaded panel and window parameters
Start(F, T, S, panel, mapping, order) ==
    /\ formation_period = F
    /\ trading_period = T
    /\ step_size = S
    /\ df = panel
    /\ etf_info = mapping
    /\ set_order = order
    /\ data_start_date = panel.first
    /\ data_end_date = panel.last
    /\ formation_start_date = panel.first
    /\ formation_end_date = panel.first + F
    /\ trading_start_date = panel.first + F
    /\ trading_end_date = panel.first + F + T
    /\ actual_trading_period_days = 0
    /\ embargo_times = <<>>
    /\ all_selected_pairs = <<>>
    /\ selected_pairs_no_cluster = <<>>
    /\ selected_pairs_theme_cluster = <<>>
    /\ selected_pairs_optics_cluster = <<>>
    /\ calls = <<>>
    /\ windows_run = 0
    /\ pc = "while"

\* window parameters: those main() fixes, and three other settings of them,
\* the last with a daily formation slice of 20 rows, as many as the first lag
Configs == {<<formation_period_days, trading_period_days, step_size_days>>,
            <<30, 10, 40>>, <<40, 20, 7>>, <<19, 10, 40>>}

\* panel spans that allow 0 to MaxWindows windows
Spans(F, T, S) ==
    {F + T - 1} \cup {F + T + j * S + r : j \in 0..(MaxWindows - 1),
                                         r \in {x \in {0, 88, S - 1} : x < S}}

\* the date indexes: daily, weekly, and daily with a hole after the first
\* formation period
Indexes(first, last, F, S) ==
    {<<1, first, first>>, <<7, first, first>>}
    \cup {<<1, first + F, hi>> : hi \in {h \in {first + S + F - 1, first + S + F,
                                                 first + S + F + 1} : h <= last}}

\* walk-forward family: two or fewer instruments, plain statistics
InitWalk ==
    \E cfg \in Configs, first \in {0, 11}, columns \in {<<>>, <<"A">>, <<"A", "B">>} :
      \E span \in Spans(cfg[1], cfg[2], cfg[3]) :
        \E ix \in Indexes(first, first + span, cfg[1], cfg[3]) :
          \E data \in PanelData({}, {}, {{}}, cfg[2]) :
            Start(cfg[1], cfg[2], cfg[3],
                  Panel(first, first + span, ix[1], <<ix[2], ix[3]>>, columns, data,
                        [t \in Range(Tickers) |-> -1]),
                  Rows(columns, "energy"), columns)

\* the thematic mappings, each with an iteration order of the set of names
Themes(columns) ==
    {<<Rows(<<"B", "A">>, "oil") \o Rows(<<"C", "D">>, "gas"), sorted(Range(columns))>>,
     <<Rows(<<"B", "A">>, "oil") \o Rows(<<"C", "D">>, "gas"), Reverse(sorted(Range(columns)))>>,
     <<Rows(<<"A", "B", Absent, "C">>, "oil") \o Rows(<<"D">>, "gas"), sorted(Range(columns))>>,
     <<Rows(Reverse(columns), "energy"), sorted(Range(columns))>>}

\* statistics family: the parameters of main(), a daily panel of one window
InitStats ==
    \E columns \in {<<"A", "B", "C">>, <<"A", "B", "C", "D">>, <<"B", "A", "D", "C">>} :
      \E data \in PanelData({"A", "B", "C", "D"}, {PairOf("A", "B"), PairOf("C", "D")},
                            CheapSets, trading_period_days)
                      \cup {NumericFailures, StationarityCases} :
        \E theme \in Themes(columns) :
            Start(formation_period_days, trading_period_days, step_size_days,
                  Panel(0, formation_period_days + trading_period_days,
                        1, <<0, 0>>, columns, data, [t \in Range(Tickers) |-> -1]),
                  theme[1], theme[2])

\* clustering family: ten instruments, so that the PCA fits
InitClusters ==
    \E data \in PanelData({"A"}, {PairOf("A", "B")},
                          {{}, {PairOf("A", "B"), PairOf("A", "C")},
                           Pairs \ {PairOf("A", "B")}},
                          trading_period_days) :
      \E labels \in Labellings :
        Start(formation_period_days, trading_period_days, step_size_days,
              Panel(0, formation_period_days + trading_period_days + step_size_days,
                    1, <<0, 0>>, Tickers, data, labels),
              Rows(<<"A", "B", Absent, "C">>, "oil") \o Rows(<<"D", "E">>, "gas"), Tickers)

Init == InitWalk \/ InitStats \/ InitClusters

\* window parameters main() has no test against: a step of 0 days, a negative
\* step, a formation period of 0 days, a trading period of 0 days
Malformed == {<<30, 10, 0>>, <<30, 10, -7>>, <<0, 10, 40>>, <<30, 0, 40>>}

\* main() with one of these in the place of its parameters, on daily panels
\* shorter and longer than formation period + trading period
InitMalformed ==
    \E cfg \in Malformed, first \in {0, 11}, columns \in {<<>>, <<"A">>, <<"A", "B">>} :
      \E span \in {cfg[1] + cfg[2] - 1, cfg[1] + cfg[2] + 50} :
        \E data \in PanelData({}, {}, {{}}, cfg[2]) :
            Start(cfg[1], cfg[2], cfg[3],
                  Panel(first, first + span, 1, <<first, first>>, columns, data,
                        [t \in Range(Tickers) |-> -1]),
                  Rows(columns, "energy"), columns)

formation_data == [start |-> formation_start_date, stop |-> formation_end_date]

\* line 128: df[trading_start_date:trading_end_date]
trading_data == [start |-> trading_start_date, stop |-> trading_end_date]

\* the loop test with a strict comparison
loop_condition_strict == trading_end_date < data_end_date

\* line 123
loop_condition == trading_end_date <= data_end_date

\* the concatenation with its operands exchanged
concat_in_front(frame, selected) == selected \o frame

\* pd.concat([all_selected_pairs, selected], ignore_index=True)
concat(frame, selected) == frame \o selected

\* the positions 1..n of the dates of df.index
df_index == [i \in 1..GridRows(0, df.last - df.first) |-> i]

\* the mapping with the index times[:-step] alone, the last step dates left out
getEmbargoTimes_without_the_last(times, pctEmbargo) ==
    LET step == (Len(times) * pctEmbargo) \div 100
    IN  IF step = 0 THEN [i \in 1..Len(times) |-> <<times[i], times[i]>>]
        ELSE [i \in 1..(Len(times) - step) |-> <<times[i], times[i + step]>>]

\* lines 13-21, pctEmbargo in hundredths: the Series as the sequence of its
\* entries <<index, value>>, in the order in which the Series holds them
getEmbargoTimes(times, pctEmbargo) ==
    LET step == (Len(times) * pctEmbargo) \div 100
    IN  IF step = 0 THEN [i \in 1..Len(times) |-> <<times[i], times[i]>>]
        ELSE [i \in 1..(Len(times) - step) |-> <<times[i], times[i + step]>>]
             \o [i \in 1..step |-> <<times[Len(times) - step + i], times[Len(times)]>>]

\* lines 123-135: the loop test holds; the slices and the length of the trading period
EnterWindow ==
    /\ pc = "while"
    /\ loop_condition
    /\ windows_run <= MaxWindows      \* a run is followed for MaxWindows + 1 windows
    /\ actual_trading_period_days' = trading_end_date - trading_start_date
    /\ embargo_times' = getEmbargoTimes(df_index, pct_embargo)
    /\ windows_run' = windows_run + 1
    /\ calls' = <<>>
    /\ pc' = "no_cluster"
    /\ UNCHANGED <<inputs, formation_start_date, formation_end_date, trading_start_date,
                   trading_end_date, all_selected_pairs, selected_pairs_no_cluster,
                   selected_pairs_theme_cluster, selected_pairs_optics_cluster>>

\* lines 138-141
NoClustering ==
    /\ pc = "no_cluster"
    /\ LET r == select_pairs_no_clustering(formation_data, formation_start_date,
                    formation_end_date, trading_start_date, trading_end_date,
                    actual_trading_period_days)
       IN  /\ calls' = calls \o r.calls
           /\ IF r.raised
              THEN /\ pc' = "raised"
                   /\ UNCHANGED <<selected_pairs_no_cluster, all_selected_pairs>>
              ELSE /\ pc' = "theme"
                   /\ selected_pairs_no_cluster' = r.selected
                   /\ all_selected_pairs' = concat(all_selected_pairs, r.selected)
    /\ UNCHANGED <<inputs, formation_start_date, formation_end_date, trading_start_date,
                   trading_end_date, actual_trading_period_days, embargo_times, windows_run,
                   selected_pairs_theme_cluster, selected_pairs_optics_cluster>>

\* lines 144-148
ThemeClustering ==
    /\ pc = "theme"
    /\ LET r == select_pairs_theme_clustering(formation_data, formation_start_date,
                    formation_end_date, trading_start_date, trading_end_date,
                    actual_trading_period_days)
       IN  /\ calls' = calls \o r.calls
           /\ IF r.raised
              THEN /\ pc' = "raised"
                   /\ UNCHANGED <<selected_pairs_theme_cluster, all_selected_pairs>>
              ELSE /\ pc' = "optics"
                   /\ selected_pairs_theme_cluster' = r.selected
                   /\ all_selected_pairs' = concat(all_selected_pairs, r.selected)
    /\ UNCHANGED <<inputs, formation_start_date, formation_end_date, trading_start_date,
                   trading_end_date, actual_trading_period_days, embargo_times, windows_run,
                   selected_pairs_no_cluster, selected_pairs_optics_cluster>>

\* lines 151-159: the strategy never returns a tuple, so nothing is plotted
OpticsClustering ==
    /\ pc = "optics"
    /\ LET r == select_pairs_optics_clustering(formation_data, formation_start_date,
                    formation_end_date, trading_start_date, trading_end_date,
                    actual_trading_period_days)
       IN  /\ calls' = calls \o r.calls
           /\ IF r.raised
              THEN /\ pc' = "raised"
                   /\ UNCHANGED <<selected_pairs_optics_cluster, all_selected_pairs>>
              ELSE /\ pc' = "advance"
                   /\ selected_pairs_optics_cluster' = r.selected
                   /\ all_selected_pairs' = concat(all_selected_pairs, r.selected)
    /\ UNCHANGED <<inputs, formation_start_date, formation_end_date, trading_start_date,
                   trading_end_date, actual_trading_period_days, embargo_times, windows_run,
                   selected_pairs_no_cluster, selected_pairs_theme_cluster>>

\* the advance without its last assignment
Advance_three_boundaries ==
    /\ pc = "advance"
    /\ formation_start_date' = formation_start_date + step_size
    /\ formation_end_date' = formation_end_date + step_size
    /\ trading_start_date' = trading_start_date + step_size
    /\ pc' = "while"
    /\ UNCHANGED <<inputs, trading_end_date, actual_trading_period_days, embargo_times, all_selected_pairs,
                   selected_pairs_no_cluster, selected_pairs_theme_cluster,
                   selected_pairs_optics_cluster, calls, windows_run>>

\* lines 162-165
Advance ==
    /\ pc = "advance"
    /\ formation_start_date' = formation_start_date + step_size
    /\ formation_end_date' = formation_end_date + step_size
    /\ trading_start_date' = trading_start_date + step_size
    /\ trading_end_date' = trading_end_date + step_size
    /\ pc' = "while"
    /\ UNCHANGED <<inputs, actual_trading_period_days, embargo_times, all_selected_pairs,
                   selected_pairs_no_cluster, selected_pairs_theme_cluster,
                   selected_pairs_optics_cluster, calls, windows_run>>

\* line 168: the loop test fails; all_selected_pairs is written out
Save ==
    /\ pc = "while"
    /\ ~loop_condition
    /\ pc' = "saved"
    /\ UNCHANGED <<inputs, formation_start_date, formation_end_date, trading_start_date,
                   trading_end_date, actual_trading_period_days, embargo_times, all_selected_pairs,
                   selected_pairs_no_cluster, selected_pairs_theme_cluster,
                   selected_pairs_optics_cluster, calls, windows_run>>

Next == EnterWindow \/ NoClustering \/ ThemeClustering \/ OpticsClustering \/ Advance \/ Save

Spec == Init /\ [][Next]_vars

\* the runs of main() on window parameters that are not well-formed
SpecMalformed == InitMalformed /\ [][Next]_vars

-----------------------------------------------------------------------------
(* The walk-forward loop *)

\* a window is being evaluated
in_window == pc \in {"no_cluster", "theme", "optics", "advance", "raised"}

\* the days between the first and the last date of the panel
panel_span == data_end_date - data_start_date

\* floor((D - F - T) / S) + 1 for D >= F + T, else 0
windows_expected ==
    IF panel_span >= formation_period + trading_period
    THEN ((panel_span - formation_period - trading_period) \div step_size) + 1
    ELSE 0

\* C2: the loop never enters more than floor((D - F - T)/S) + 1 windows (none
\* for D < F + T) and has entered exactly that many when it ends; the k-th
\* window (k = 0, 1, ...) starts at the first date + k*S whatever the
\* strategies returned; with F = 730, T = 182, S = 182 and D = 1000 it ends
\* after one window.
C2_WindowCount ==
    /\ windows_run <= windows_expected
    /\ pc = "saved" => windows_run = windows_expected
    /\ in_window => formation_start_date = data_start_date + (windows_run - 1) * step_size
    /\ pc \in {"while", "saved"} =>
          formation_start_date = data_start_date + windows_run * step_size
    /\ (/\ pc = "saved"
        /\ formation_period = 730 /\ trading_period = 182 /\ step_size = 182
        /\ panel_span = 1000) => windows_run = 1

\* the loop has ended after more than one window on a panel on which the
\* last window ends on the last date
C2_Witness ==
    /\ pc = "saved"
    /\ windows_run >= 2
    /\ trading_end_date - step_size = data_end_date

\* C3: the window being evaluated has formation_end = formation_start +
\* formation_period, trading_start = formation_end, trading_end =
\* trading_start + trading_period, lies between the first and the last date
\* of the panel, and the trading period length handed to the strategies is
\* trading_end - trading_start; the first three relations hold between
\* windows too.
C3_WindowWellFormed ==
    /\ formation_end_date = formation_start_date + formation_period
    /\ trading_start_date = formation_end_date
    /\ trading_end_date = trading_start_date + trading_period
    /\ in_window =>
          /\ formation_start_date >= data_start_date
          /\ trading_end_date <= data_end_date
          /\ actual_trading_period_days = trading_end_date - trading_start_date

\* the second window has been evaluated by the three strategies
C3_Witness ==
    /\ pc = "advance"
    /\ windows_run = 2
    /\ formation_start_date = data_start_date + step_size

-----------------------------------------------------------------------------
(* The selection filter *)

\* the records of all_selected_pairs that belong to the window being evaluated
of_this_window(r) == in_window /\ r.Formation_Start = formation_start_date

\* the rows of the strategy's results table that are in the group of the call
\* e: the calls of the same strategy and group that returned statistics with
\* a Correlation that is not NaN
table_of_group(e) ==
    rows_of(SelectSeq(calls, LAMBDA c : /\ c.method = e.method
                                        /\ c.group = e.group
                                        /\ c.returned = "stats"
                                        /\ ~IsNaN(c.row.Correlation)))

\* the call that produced the record r meets the median of its group's table
within_group_median(r) ==
    \E i \in 1..Len(calls) :
        /\ calls[i].method = r.Method
        /\ calls[i].returned = "stats"
        /\ calls[i].row.Pair = r.Pair
        /\ calls[i].row.Spread_STD = r.Spread_STD
        /\ Len(r.Spread_STD) = 1
        /\ LE(Num(2 * r.Spread_STD[1]),
              median2(Column_Spread_STD(table_of_group(calls[i]))))

-----------------------------------------------------------------------------
(* The stationarity gate *)

\* the aligned frame of the call is empty
aligned_empty(e) == e.series1.rows = 0

\* both series of the call are judged non-stationary
both_non_stationary(e) == is_not_stationary(e.series1) /\ is_not_stationary(e.series2)

\* the output has a record of this window for the pair of the call e, from
\* the strategy that made the call
emitted_for(e) ==
    \E i \in 1..Len(all_selected_pairs) :
        /\ of_this_window(all_selected_pairs[i])
        /\ all_selected_pairs[i].Method = e.method
        /\ all_selected_pairs[i].Pair = e.pair

\* C4: a call of calculate_pair_statistics returns a bundle only if the
\* aligned frame is not empty and both series are judged non-stationary; a
\* call with an empty frame or a series judged stationary returns None, and
\* the strategy that made it emits no record for the pair in this window;
\* every record of the window comes from a call that returned a bundle.
C4_StationarityGate ==
    /\ \A i \in 1..Len(calls) :
          /\ calls[i].returned = "stats" =>
                ~aligned_empty(calls[i]) /\ both_non_stationary(calls[i])
          /\ (aligned_empty(calls[i]) \/ ~both_non_stationary(calls[i])) =>
                calls[i].returned = "None" /\ ~emitted_for(calls[i])
    /\ \A i \in 1..Len(all_selected_pairs) :
          of_this_window(all_selected_pairs[i]) =>
              \E j \in 1..Len(calls) :
                  /\ calls[j].method = all_selected_pairs[i].Method
                  /\ calls[j].pair = all_selected_pairs[i].Pair
                  /\ calls[j].returned = "stats"
                  /\ both_non_stationary(calls[j])

\* a window in which a pair with one series judged stationary (p = 0.05) and
\* one judged non-stationary got None while another pair was emitted
C4_Witness ==
    /\ pc = "advance"
    /\ all_selected_pairs # <<>>
    /\ \E i \in 1..Len(calls) :
          /\ ~is_not_stationary(calls[i].series1)
          /\ is_not_stationary(calls[i].series2)
          /\ calls[i].series1.adf_pvalue = Num(5)
          /\ calls[i].returned = "None"

\* a window whose formation slice has no row: every call returned None
C4_EmptyFrame ==
    /\ pc = "advance"
    /\ calls # <<>>
    /\ \A i \in 1..Len(calls) : aligned_empty(calls[i]) /\ calls[i].returned = "None"

-----------------------------------------------------------------------------
(* The median of a group *)

\* the strategies of the window have returned
strategies_returned == pc \in {"theme", "optics", "advance"}

\* the rows of every call of the strategy and group of the call e that
\* returned statistics
evaluated_of_group(e) ==
    rows_of(SelectSeq(calls, LAMBDA c : /\ c.method = e.method
                                        /\ c.group = e.group
                                        /\ c.returned = "stats"))

\* the four thresholds that do not depend on the group
meets_fixed_thresholds(row) ==
    /\ GE(row.Correlation, Num(8))
    /\ LE(row.Cointegration_PValue, Num(5))
    /\ mean_lt(np_mean(row.Hurst_Exponent), 5)
    /\ GE(row.Half_Life, Num(5))
    /\ LE(row.Half_Life, Num(actual_trading_period_days))

\* Spread_STD of the row <= the median of the column of the rows
at_most_median(row, rows) ==
    /\ Len(row.Spread_STD) = 1
    /\ LE(Num(2 * row.Spread_STD[1]), median2(Column_Spread_STD(rows)))

\* C5: the Spread STD threshold applied to a pair is the median Spread STD
\* over the pairs of its group in its window that returned statistics with a
\* Correlation that is not NaN (the whole window for No Clustering, one
\* segment, one cluster): a pair that meets the four other thresholds is
\* emitted exactly when its Spread STD is at most that median, whatever the
\* statistics of the pairs of other groups.
C5_GroupMedian ==
    strategies_returned =>
        \A i \in 1..Len(calls) :
            (calls[i].returned = "stats" /\ meets_fixed_thresholds(calls[i].row)) =>
                (emitted_for(calls[i])
                    <=> at_most_median(calls[i].row, table_of_group(calls[i])))

\* C5 as claimed: the median is over exactly the evaluated pairs of the group
C5_MedianOverEvaluated ==
    strategies_returned =>
        \A i \in 1..Len(calls) :
            (calls[i].returned = "stats" /\ meets_fixed_thresholds(calls[i].row)) =>
                (emitted_for(calls[i])
                    <=> at_most_median(calls[i].row, evaluated_of_group(calls[i])))

\* a segment in which a pair is emitted although its Spread STD is above the
\* median over the evaluated pairs of the segment, two of which have a
\* Correlation of NaN; another segment of the window has its own median
C5_Witness ==
    /\ strategies_returned
    /\ \E i \in 1..Len(calls) :
          /\ calls[i].method = "Clustering by Segment"
          /\ emitted_for(calls[i])
          /\ ~at_most_median(calls[i].row, evaluated_of_group(calls[i]))
          /\ \E j \in 1..Len(calls) :
                /\ calls[j].method = "Clustering by Segment"
                /\ calls[j].group # calls[i].group

-----------------------------------------------------------------------------
(* The candidate pairs *)

calls_of(method) == SelectSeq(calls, LAMBDA e : e.method = method)

\* the unordered pairs a strategy has evaluated in this window
evaluated_by(method) ==
    {{calls[i].pair[1], calls[i].pair[2]} : i \in {j \in 1..Len(calls) : calls[j].method = method}}

\* the calls are for distinct instruments among the names, no two of them for
\* the same unordered pair
distinct_pairs_of(made, names) ==
    \A i \in 1..Len(made) :
        /\ made[i].pair[1] # made[i].pair[2]
        /\ made[i].pair[1] \in names
        /\ made[i].pair[2] \in names
        /\ \A j \in 1..(i - 1) :
              {made[j].pair[1], made[j].pair[2]} # {made[i].pair[1], made[i].pair[2]}

in_segment(ticker, segment) ==
    \E k \in 1..Len(etf_info) : etf_info[k].Ticker = ticker /\ etf_info[k].Segment = segment

\* C7: every pair evaluated by the thematic strategy has both members listed
\* in the segment of the call and both among the columns; every pair
\* evaluated by the OPTICS strategy has both members labelled with the
\* cluster of the call, which is not -1; and when the thematic strategy has
\* returned, every pair of tickers of one segment that are both columns has
\* been evaluated, also after a pair with an absent member was passed over.
C7_PairsWithinGroup ==
    /\ \A i \in 1..Len(calls) :
          /\ calls[i].method = "Clustering by Segment" =>
                /\ in_segment(calls[i].pair[1], calls[i].group)
                /\ in_segment(calls[i].pair[2], calls[i].group)
                /\ calls[i].pair[1] \in Range(set_order)
                /\ calls[i].pair[2] \in Range(set_order)
          /\ calls[i].method = "Clustering using OPTICS" =>
                /\ calls[i].group # -1
                /\ df.labels[calls[i].series1.id] = calls[i].group
                /\ df.labels[calls[i].series2.id] = calls[i].group
    /\ pc \in {"optics", "advance"} =>
          \A k, l \in 1..Len(etf_info) :
              (/\ k < l
               /\ etf_info[k].Segment = etf_info[l].Segment
               /\ etf_info[k].Ticker \in Range(set_order)
               /\ etf_info[l].Ticker \in Range(set_order)) =>
                  \E i \in 1..Len(calls) :
                      /\ calls[i].method = "Clustering by Segment"
                      /\ calls[i].group = etf_info[k].Segment
                      /\ calls[i].pair = <<etf_info[k].Ticker, etf_info[l].Ticker>>

\* the thematic strategy evaluated the pair (B, C) after passing over (A, Z)
\* and (B, Z), Z being absent from the panel, and the OPTICS strategy
\* evaluated the pairs of a cluster while other instruments were noise
C7_Witness ==
    /\ pc = "advance"
    /\ \E k \in 1..Len(etf_info) : etf_info[k].Ticker \notin Range(set_order)
    /\ \E i \in 1..Len(calls) :
          calls[i].method = "Clustering by Segment" /\ calls[i].pair = <<"B", "C">>
    /\ \E i \in 1..Len(calls) : calls[i].method = "Clustering using OPTICS"
    /\ \E t \in Range(df.columns) : df.labels[t] = -1

\* the mapping has one segment, and its tickers are the instruments of the panel
single_segment_of_panel ==
    /\ Len(categories) = 1
    /\ {etf_info[k].Ticker : k \in 1..Len(etf_info)} = Range(df.columns)

\* C8: when the mapping has a single segment whose tickers are exactly the
\* instruments of the panel, the thematic strategy has evaluated the same set
\* of unordered pairs as the No Clustering strategy in the window.
C8_SingleSegmentSamePairs ==
    (pc \in {"optics", "advance"} /\ single_segment_of_panel) =>
        evaluated_by("Clustering by Segment") = evaluated_by("No Clustering")

\* both strategies have evaluated the six pairs of a single segment of four
C8_Witness ==
    /\ pc = "optics"
    /\ single_segment_of_panel
    /\ Cardinality(evaluated_by("Clustering by Segment")) = 6

-----------------------------------------------------------------------------
(* The output *)

\* the Method label of the strategy that main() calls at a position
method_at(position) ==
    IF position = "no_cluster" THEN "No Clustering"
    ELSE IF position = "theme" THEN "Clustering by Segment"
    ELSE IF position = "optics" THEN "Clustering using OPTICS"
    ELSE "none"

\* the records a step appends to the output
appended == SubSeq(all_selected_pairs', Len(all_selected_pairs) + 1, Len(all_selected_pairs'))

\* C9: every record a step appends to all_selected_pairs carries the Method
\* label of the strategy main() has just called and, as Formation_Start,
\* Formation_End, Trading_Start and Trading_End, the four boundaries of the
\* window being evaluated; a step outside the three strategy calls appends
\* nothing.
C9_MethodAndWindow ==
    [][/\ Len(all_selected_pairs') >= Len(all_selected_pairs)
       /\ \A i \in 1..Len(appended) :
             /\ appended[i].Method = method_at(pc)
             /\ appended[i].Formation_Start = formation_start_date
             /\ appended[i].Formation_End = formation_end_date
             /\ appended[i].Trading_Start = trading_start_date
             /\ appended[i].Trading_End = trading_end_date]_vars

\* in the second window the output holds records of the three strategies
\* for the first window and for the second
C9_Witness ==
    /\ pc = "advance"
    /\ windows_run = 2
    /\ \A m \in {"No Clustering", "Clustering by Segment", "Clustering using OPTICS"} :
          /\ \E i \in 1..Len(all_selected_pairs) :
                /\ all_selected_pairs[i].Method = m
                /\ all_selected_pairs[i].Formation_Start = data_start_date
          /\ \E i \in 1..Len(all_selected_pairs) :
                /\ all_selected_pairs[i].Method = m
                /\ all_selected_pairs[i].Formation_Start = formation_start_date

\* the place of a strategy in a window
method_rank(method) ==
    IF method = "No Clustering" THEN 1
    ELSE IF method = "Clustering by Segment" THEN 2
    ELSE 3

\* the record a is not after the record b in the order of windows and strategies
not_after(a, b) ==
    \/ a.Formation_Start < b.Formation_Start
    \/ /\ a.Formation_Start = b.Formation_Start
       /\ method_rank(a.Method) <= method_rank(b.Method)

\* C10: every step leaves the records already in all_selected_pairs in
\* place and unchanged, adding records only at the end; the records are in
\* the order of their windows and, within a window, No Clustering, then
\* Clustering by Segment, then Clustering using OPTICS; in each window the
\* strategies are called in that order, each once, and the boundaries move
\* only after the third.
C10_AppendOnlyOrdered ==
    [][/\ Len(all_selected_pairs') >= Len(all_selected_pairs)
       /\ SubSeq(all_selected_pairs', 1, Len(all_selected_pairs)) = all_selected_pairs
       /\ \A i, j \in 1..Len(all_selected_pairs') :
             i < j => not_after(all_selected_pairs'[i], all_selected_pairs'[j])
       /\ all_selected_pairs' # all_selected_pairs => pc \in {"no_cluster", "theme", "optics"}
       /\ pc' = "no_cluster" => pc = "while"
       /\ pc' = "theme" => pc = "no_cluster"
       /\ pc' = "optics" => pc = "theme"
       /\ pc' = "advance" => pc = "optics"
       /\ formation_start_date' # formation_start_date =>
             /\ pc = "advance"
             /\ formation_start_date' > formation_start_date]_vars

\* the run has ended with records of two windows, the three strategies
\* having added records in the second
C10_Witness ==
    /\ pc = "saved"
    /\ windows_run = 2
    /\ \E i \in 1..Len(all_selected_pairs) :
          all_selected_pairs[i].Formation_Start = data_start_date
    /\ \A m \in {"No Clustering", "Clustering by Segment", "Clustering using OPTICS"} :
          \E i \in 1..Len(all_selected_pairs) :
              /\ all_selected_pairs[i].Method = m
              /\ all_selected_pairs[i].Formation_Start = data_start_date + step_size

\* the call of the strategy that produced the record r, made for the group g
produced_in_group(r, g) ==
    \E i \in 1..Len(calls) :
        /\ calls[i].method = r.Method
        /\ calls[i].returned = "stats"
        /\ calls[i].row.Pair = r.Pair
        /\ calls[i].group = g

\* the optics records of the window carry the id of the cluster their pair
\* was evaluated in, the records of no clustering carry no label
labels_of_optics_and_no_clustering ==
    \A i \in 1..Len(all_selected_pairs) :
        of_this_window(all_selected_pairs[i]) =>
            /\ all_selected_pairs[i].Method = "Clustering using OPTICS" =>
                  /\ Len(all_selected_pairs[i].Cluster) = 1
                  /\ produced_in_group(all_selected_pairs[i], all_selected_pairs[i].Cluster[1])
            /\ all_selected_pairs[i].Method = "No Clustering" =>
                  IsNaN(all_selected_pairs[i].Cluster)

\* C11: every record emitted by the theme strategy carries the name of the
\* segment its pair was evaluated in, every record emitted by the optics
\* strategy carries the id of its cluster, and the records of the strategy
\* without clustering carry no group label.
C11_GroupLabelCarried ==
    /\ labels_of_optics_and_no_clustering
    /\ \A i \in 1..Len(all_selected_pairs) :
          (/\ of_this_window(all_selected_pairs[i])
           /\ all_selected_pairs[i].Method = "Clustering by Segment") =>
              /\ Len(all_selected_pairs[i].Cluster) = 1
              /\ produced_in_group(all_selected_pairs[i], all_selected_pairs[i].Cluster[1])

\* the three strategies have each emitted a record in the window, the theme
\* record being the only kind without its label
C11_Witness ==
    /\ pc = "advance"
    /\ labels_of_optics_and_no_clustering
    /\ \A m \in {"No Clustering", "Clustering by Segment", "Clustering using OPTICS"} :
          \E i \in 1..Len(all_selected_pairs) :
              /\ of_this_window(all_selected_pairs[i])
              /\ all_selected_pairs[i].Method = m
    /\ \A i \in 1..Len(all_selected_pairs) :
          all_selected_pairs[i].Method = "Clustering by Segment" =>
              IsNaN(all_selected_pairs[i].Cluster)

\* the Pair of the record r is made of two distinct names of panel columns
pair_of_two_columns(r) ==
    /\ Len(r.Pair) = 2
    /\ r.Pair[1] # r.Pair[2]
    /\ r.Pair[1] \in Range(df.columns)
    /\ r.Pair[2] \in Range(df.columns)

in_sorted_order(pair) == Rank(pair[1]) < Rank(pair[2])

\* the first name of the pair comes before the second in the rows of one
\* segment of the category mapping
in_mapping_order(pair) ==
    \E i, j \in 1..Len(etf_info) :
        /\ i < j
        /\ etf_info[i].Segment = etf_info[j].Segment
        /\ etf_info[i].Ticker = pair[1]
        /\ etf_info[j].Ticker = pair[2]

\* C12 as stated: the Pair of every emitted record, of any of the three
\* strategies, is a 2-tuple of two distinct names of panel columns in sorted
\* order.
C12_PairSorted ==
    \A i \in 1..Len(all_selected_pairs) :
        /\ pair_of_two_columns(all_selected_pairs[i])
        /\ in_sorted_order(all_selected_pairs[i].Pair)

\* C12, amended: the Pair of every emitted record is a 2-tuple of two
\* distinct names of panel columns; it is in sorted order in the records of
\* the strategy without clustering and of the OPTICS strategy, and in the
\* order of the rows of the category mapping in the records of the theme
\* strategy.
C12_PairOrderByStrategy ==
    \A i \in 1..Len(all_selected_pairs) :
        /\ pair_of_two_columns(all_selected_pairs[i])
        /\ IF all_selected_pairs[i].Method = "Clustering by Segment"
           THEN in_mapping_order(all_selected_pairs[i].Pair)
           ELSE in_sorted_order(all_selected_pairs[i].Pair)

\* the theme strategy has emitted a pair in the mapping's order that is not
\* the sorted one, next to a record of the strategy without clustering, on a
\* panel whose columns are not in sorted order
C12_Witness ==
    /\ df.columns # sorted(Range(df.columns))
    /\ \E i \in 1..Len(all_selected_pairs) :
          /\ all_selected_pairs[i].Method = "Clustering by Segment"
          /\ ~in_sorted_order(all_selected_pairs[i].Pair)
    /\ \E i \in 1..Len(all_selected_pairs) :
          all_selected_pairs[i].Method = "No Clustering"

\* adfuller raised inside is_not_stationary for a series of the call e
adfuller_raised(e) ==
    \/ e.series1.nunique > 1 /\ IsNaN(e.series1.adf_pvalue)
    \/ e.series2.nunique > 1 /\ IsNaN(e.series2.adf_pvalue)

\* the call e reached the statistics that follow the stationarity gate
past_the_gate(e) == ~aligned_empty(e) /\ both_non_stationary(e)

\* one of the two regressions of egle_granger_test_bidirectional raised
coint_raised(e) ==
    /\ past_the_gate(e)
    /\ e.series1.nunique > 1
    /\ e.series2.nunique > 1
    /\ \/ coint(e.series1, e.series2) = <<>>
       \/ coint(e.series2, e.series1) = <<>>

\* the autoregression fit of calculate_half_life raised
AutoReg_raised(e) ==
    past_the_gate(e) /\ calculate_half_life_raises(Spread(e.series1, e.series2))

\* a failure of adfuller or of coint alone leaves the call returning, None
\* or a bundle; after a failure of both regressions the bundle has a NaN
\* t-statistic and p-value, and its other statistics are those of the pair
adfuller_and_coint_caught ==
    \A i \in 1..Len(calls) :
        ((adfuller_raised(calls[i]) \/ coint_raised(calls[i]))
             /\ calls[i].series1.rows > 2) =>
            /\ calls[i].returned = IF past_the_gate(calls[i]) THEN "stats" ELSE "None"
            /\ (/\ calls[i].returned = "stats"
                /\ coint(calls[i].series1, calls[i].series2) = <<>>
                /\ coint(calls[i].series2, calls[i].series1) = <<>>) =>
                  /\ IsNaN(calls[i].row.Cointegration_TStats)
                  /\ IsNaN(calls[i].row.Cointegration_PValue)
                  /\ calls[i].row.Correlation = pearsonr(calls[i].series1, calls[i].series2)
                  /\ calls[i].row.Spread_STD
                        = PairData(calls[i].series1.id, calls[i].series2.id).std

\* C13: when the unit-root test, one of the two cointegration regressions or
\* the autoregression fit raises in a call of calculate_pair_statistics, the
\* call still returns (None or a bundle), so that the strategy goes on with
\* its remaining pairs and the run is not ended by the failure.
C13_NumericFailureCaught ==
    \A i \in 1..Len(calls) :
        (adfuller_raised(calls[i]) \/ coint_raised(calls[i]) \/ AutoReg_raised(calls[i])) =>
            /\ calls[i].returned \in {"None", "stats"}
            /\ pc # "raised"

\* a strategy has gone past a pair whose unit-root test raised and past a
\* pair whose two regressions raised, and has evaluated a later pair
C13_Witness ==
    /\ pc \in {"theme", "optics", "advance"}
    /\ \E i, j \in 1..Len(calls) :
          /\ i < j
          /\ calls[i].method = calls[j].method
          /\ adfuller_raised(calls[i]) \/ coint_raised(calls[i])
          /\ calls[j].returned = "stats"
          /\ ~adfuller_raised(calls[j])
          /\ ~coint_raised(calls[j])
    /\ \E i \in 1..Len(calls) : adfuller_raised(calls[i])
    /\ \E i \in 1..Len(calls) :
          /\ coint_raised(calls[i])
          /\ IsNaN(calls[i].row.Cointegration_TStats)

\* the number of rows of returns_df in the formation window
returns_in_window ==
    returns_rows_of(SliceRows(formation_start_date, formation_end_date))

\* the PCA of the window raises: fewer instruments, or fewer return dates,
\* than the components asked for
pca_fails_in_window ==
    /\ df.columns # <<>>
    /\ returns_in_window > 0
    /\ \/ n_components > Cardinality(Range(df.columns))
       \/ n_components > returns_in_window

\* the PCA fits and OPTICS labels every instrument of the window as noise
no_cluster_in_window ==
    /\ df.columns # <<>>
    /\ returns_in_window > 0
    /\ ~pca_fails_in_window
    /\ \A t \in Range(df.columns) : df.labels[Shift(t, formation_start_date)] = -1

\* no segment of the mapping lists two columns of the panel
no_segment_in_window ==
    \A i, j \in 1..Len(etf_info) :
        (i < j /\ etf_info[i].Segment = etf_info[j].Segment) =>
            ~(etf_info[i].Ticker \in Range(df.columns) /\ etf_info[j].Ticker \in Range(df.columns))

\* C14: when the PCA of the OPTICS strategy raises, or OPTICS leaves no
\* cluster besides noise, or no segment of the mapping has a pair of columns,
\* the strategy evaluates no pair and returns an empty frame: main() adds no
\* record for it, goes on with the next strategy of the window, and after the
\* last strategy moves the window by the step.
C14_EmptyGroupContinues ==
    [][/\ (pc = "optics" /\ (pca_fails_in_window \/ no_cluster_in_window)) =>
              /\ selected_pairs_optics_cluster' = <<>>
              /\ all_selected_pairs' = all_selected_pairs
              /\ calls' = calls
              /\ pc' = "advance"
       /\ (pc = "theme" /\ no_segment_in_window) =>
              /\ selected_pairs_theme_cluster' = <<>>
              /\ all_selected_pairs' = all_selected_pairs
              /\ calls' = calls
              /\ pc' = "optics"
       /\ pc = "advance" =>
              /\ pc' = "while"
              /\ formation_start_date' = formation_start_date + step_size
              /\ trading_end_date' = trading_end_date + step_size]_vars

\* a run of two windows has ended in which OPTICS found no cluster in ten
\* instruments: the output has records of the two other strategies for both
\* windows and none of the OPTICS strategy
C14_Witness ==
    /\ pc = "saved"
    /\ windows_run = 2
    /\ Len(df.columns) = n_components
    /\ \A t \in Range(df.columns) : df.labels[t] = -1
    /\ \A i \in 1..Len(all_selected_pairs) :
          all_selected_pairs[i].Method # "Clustering using OPTICS"
    /\ \A m \in {"No Clustering", "Clustering by Segment"} :
          \A start \in {data_start_date, data_start_date + step_size} :
              \E i \in 1..Len(all_selected_pairs) :
                  /\ all_selected_pairs[i].Method = m
                  /\ all_selected_pairs[i].Formation_Start = start

\* the aligned frame of the call e has a row, and fewer than the three rows
\* that leave two returns for pearsonr and two observations for AutoReg
few_observations(e) == e.series1.rows > 0 /\ e.series1.rows - 1 < 2

\* C15: a call of calculate_pair_statistics on a pair with too few aligned
\* observations, a single row included, returns None: it raises nothing, the
\* run is not ended by it, and no record is emitted for the pair.
C15_DataGapSkipped ==
    \A i \in 1..Len(calls) :
        few_observations(calls[i]) =>
            /\ calls[i].returned = "None"
            /\ pc # "raised"
            /\ ~emitted_for(calls[i])

\* a pair with a single aligned row was evaluated after a window that was
\* completed: the call raised and the run ended in the strategy
C15_Witness ==
    /\ pc = "raised"
    /\ windows_run = 2
    /\ \E i \in 1..Len(calls) :
          /\ calls[i].series1.rows = 1
          /\ calls[i].returned = "raise"

\* a formation period, trading period or step that is not positive
malformed_parameters == formation_period <= 0 \/ trading_period <= 0 \/ step_size <= 0

\* C16: with a formation period, a trading period or a step that is not
\* positive, main() processes no window: it never enters the loop, and it
\* does not go on to write the output.
C16_MalformedAbortsBeforeLoop ==
    malformed_parameters => (windows_run = 0 /\ pc = "while")

\* with a step of 0 days the loop was entered a second time on the very same
\* window
C16_Witness ==
    /\ step_size = 0
    /\ windows_run = 2
    /\ formation_start_date = data_start_date
    /\ pc = "no_cluster"

\* every pair evaluated in the window was given all the rows of
\* df[formation_start_date:formation_end_date], whatever the embargo mapping
formation_slice_untouched ==
    in_window =>
        \A i \in 1..Len(calls) :
            /\ calls[i].series1.rows = SliceRows(formation_start_date, formation_end_date)
            /\ calls[i].series2.rows = SliceRows(formation_start_date, formation_end_date)

\* inside a window the mapping is the one of the full index: every date is
\* mapped to the date step rows later, the last step dates to the last date
embargo_computed ==
    in_window =>
        /\ Len(embargo_times) = GridRows(0, df.last - df.first)
        /\ \A i \in 1..Len(embargo_times) :
              embargo_times[i][2] = Min2(i + (Len(embargo_times) * pct_embargo) \div 100,
                                         Len(embargo_times))

\* C17: the embargo mapping computed for a window is part of the metadata of
\* the window, carried by the records emitted for it, and the strategies are
\* given the whole formation slice, as they would be without the mapping.
C17_EmbargoInMetadata ==
    /\ formation_slice_untouched
    /\ \A i \in 1..Len(all_selected_pairs) :
          of_this_window(all_selected_pairs[i]) =>
              /\ "Embargo_Times" \in DOMAIN all_selected_pairs[i]
              /\ all_selected_pairs[i].Embargo_Times = embargo_times

\* a window with a mapping that moves dates (a step of 9 rows) has been
\* evaluated on its whole formation slice and has records in the output
C17_Witness ==
    /\ pc = "advance"
    /\ embargo_times # <<>>
    /\ embargo_times[1] = <<1, 10>>
    /\ formation_slice_untouched
    /\ embargo_computed
    /\ \E i \in 1..Len(calls) : calls[i].series1.rows = formation_period + 1
    /\ \E i \in 1..Len(all_selected_pairs) : of_this_window(all_selected_pairs[i])

\* the number of dates of the panel that are in the formation slice and in
\* the trading slice of the window
dates_in_both ==
    SliceRows(Max2(formation_data.start, trading_data.start),
              Min2(formation_data.stop, trading_data.stop))

\* the two slices share no date but formation_end_date = trading_start_date
at_most_the_boundary_date ==
    in_window =>
        /\ dates_in_both = SliceRows(formation_end_date, trading_start_date)
        /\ dates_in_both <= 1

\* C18: in every window no date of the panel is both in the formation slice
\* given to the strategies and in the trading slice, and every pair is
\* evaluated on the prices dated before trading_start_date only.
C18_NoLookAhead ==
    in_window =>
        /\ dates_in_both = 0
        /\ \A i \in 1..Len(calls) :
              calls[i].series1.rows = SliceRows(formation_start_date, trading_start_date - 1)

\* a pair has been evaluated on a formation slice whose last row is the
\* first row of the trading slice
C18_Witness ==
    /\ in_window
    /\ dates_in_both = 1
    /\ at_most_the_boundary_date
    /\ \E i \in 1..Len(calls) :
          /\ calls[i].returned = "stats"
          /\ calls[i].series1.rows = SliceRows(formation_start_date, trading_start_date - 1) + 1

\* the series holds the prices of the instrument it is named after
holds_own_prices(series) == series.id = Shift(series.name, formation_start_date)

\* C19: in each strategy the two series evaluated for a pair are the columns
\* of the panel of the two instruments the pair names: after the relabelling
\* every column holds the prices of the instrument it is named after,
\* whatever the order of the columns of the panel.
C19_ColumnsKeepTheirPrices ==
    in_window =>
        \A i \in 1..Len(calls) :
            /\ calls[i].series1.name = calls[i].pair[1]
            /\ calls[i].series2.name = calls[i].pair[2]
            /\ holds_own_prices(calls[i].series1)
            /\ holds_own_prices(calls[i].series2)

\* on a panel whose columns are not in sorted order the strategy without
\* clustering has returned statistics for a pair computed on the prices of
\* other instruments, and an emitted record carries them under its name
C19_Witness ==
    /\ pc = "advance"
    /\ df.columns # sorted(Range(df.columns))
    /\ \E i \in 1..Len(calls) :
          /\ calls[i].method = "No Clustering"
          /\ calls[i].returned = "stats"
          /\ ~holds_own_prices(calls[i].series1)
          /\ emitted_for(calls[i])

\* one of the two series of the call has at most one distinct value
a_series_is_constant(e) == e.series1.nunique <= 1 \/ e.series2.nunique <= 1

\* the bundle of the call carries the t-statistic and the p-value of test,
\* NaN and NaN when the regression raised
returned_direction(e, test) ==
    IF test = <<>>
    THEN IsNaN(e.row.Cointegration_TStats) /\ IsNaN(e.row.Cointegration_PValue)
    ELSE /\ e.row.Cointegration_TStats = Num(test[1])
         /\ e.row.Cointegration_PValue = Num(test[2])

\* what the bundle of the call must carry, test1 being the regression of
\* series1 on series2 and test2 the other one
direction_expected(e, test1, test2) ==
    IF a_series_is_constant(e) THEN returned_direction(e, <<>>)
    ELSE IF test1 = <<>> THEN returned_direction(e, test2)
    ELSE IF test2 = <<>> THEN returned_direction(e, test1)
    ELSE IF test2[1] < test1[1] THEN returned_direction(e, test2)
    ELSE returned_direction(e, test1)

\* C20: the cointegration statistics of a bundle are the t-statistic and the
\* p-value of one and the same direction: the one with the lower t-statistic,
\* the first one (series1 on series2) on a tie, the other one when exactly one
\* regression failed, NaN when both failed; and NaN, whatever the regressions
\* would give, when one of the series has at most one distinct value.
C20_LowerTStatDirection ==
    \A i \in 1..Len(calls) :
        calls[i].returned = "stats" =>
            direction_expected(calls[i], coint(calls[i].series1, calls[i].series2),
                               coint(calls[i].series2, calls[i].series1))

\* a pair whose two directions have the same t-statistic and different
\* p-values has been evaluated, and its bundle has the p-value of the first
C20_Witness ==
    \E i \in 1..Len(calls) :
        /\ calls[i].returned = "stats"
        /\ ~a_series_is_constant(calls[i])
        /\ coint(calls[i].series1, calls[i].series2) # <<>>
        /\ coint(calls[i].series2, calls[i].series1) # <<>>
        /\ coint(calls[i].series1, calls[i].series2)[1] = coint(calls[i].series2, calls[i].series1)[1]
        /\ coint(calls[i].series1, calls[i].series2)[2] # coint(calls[i].series2, calls[i].series1)[2]
        /\ calls[i].row.Cointegration_PValue = Num(coint(calls[i].series1, calls[i].series2)[2])

\* the positions of the records of this window that the strategy of the call
\* e emitted for its pair
records_for(e) ==
    {i \in 1..Len(all_selected_pairs) :
        /\ of_this_window(all_selected_pairs[i])
        /\ all_selected_pairs[i].Method = e.method
        /\ all_selected_pairs[i].Pair = e.pair}

\* the call returned statistics that meet the five criteria, the median
\* being the one of the table of its group
qualifies(e) ==
    /\ e.returned = "stats"
    /\ meets_fixed_thresholds(e.row)
    /\ at_most_median(e.row, table_of_group(e))

\* the record carries the statistics of a call of its strategy for its pair
from_a_call(r) ==
    \E i \in 1..Len(calls) :
        /\ calls[i].method = r.Method
        /\ calls[i].pair = r.Pair
        /\ calls[i].returned = "stats"
        /\ calls[i].row.Correlation = r.Correlation
        /\ calls[i].row.Half_Life = r.Half_Life
        /\ calls[i].row.Spread_STD = r.Spread_STD

phi_of(e) == PairData(e.series1.id, e.series2.id).phi

\* the guards of calculate_half_life as far as they go: NaN for phi >= 1, for
\* phi <= -1 and for a negative phi, a positive number for 0 < phi < 1
half_life_guards ==
    \A i \in 1..Len(calls) :
        (calls[i].returned = "stats" /\ Len(phi_of(calls[i])) = 1) =>
            /\ (phi_of(calls[i])[1] >= 100 \/ phi_of(calls[i])[1] < 0) =>
                  IsNaN(calls[i].row.Half_Life)
            /\ (0 < phi_of(calls[i])[1] /\ phi_of(calls[i])[1] < 100) =>
                  /\ Len(calls[i].row.Half_Life) = 1
                  /\ calls[i].row.Half_Life[1] > 0

\* C22: calculate_half_life never raises; the half-life of a bundle is NaN
\* when the fitted coefficient phi is >= 1 or <= -1 and whenever it is not
\* strictly between 0 and 1, and a half-life that is a number is positive.
C22_HalfLifeDefinedInsideUnitInterval ==
    \A i \in 1..Len(calls) :
        /\ ~AutoReg_raised(calls[i])
        /\ (calls[i].returned = "stats" /\ Len(phi_of(calls[i])) = 1) =>
              /\ (phi_of(calls[i])[1] >= 100 \/ phi_of(calls[i])[1] <= -100) =>
                    IsNaN(calls[i].row.Half_Life)
              /\ ~IsNaN(calls[i].row.Half_Life) =>
                    /\ 0 < phi_of(calls[i])[1]
                    /\ phi_of(calls[i])[1] < 100
                    /\ calls[i].row.Half_Life[1] > 0

\* a pair whose fitted coefficient is exactly 0 has a bundle with the
\* half-life 0
C22_Witness ==
    /\ half_life_guards
    /\ \E i \in 1..Len(calls) :
          /\ calls[i].returned = "stats"
          /\ phi_of(calls[i]) = Num(0)
          /\ calls[i].row.Half_Life = Num(0)

\* C23: the Hurst map of a bundle has a key for every lag of the strategy
\* that is strictly smaller than the length of the spread and for no other:
\* a lag equal to the length or above it is left out; a map without keys has
\* the mean NaN, and a map with keys and estimates that are all numbers has
\* a mean that is a number.
C23_HurstLagsBelowLength ==
    \A i \in 1..Len(calls) :
        calls[i].returned = "stats" =>
            /\ DOMAIN calls[i].row.Hurst_Exponent
                  = {l \in Range(strategy_lags) : l < calls[i].series1.rows}
            /\ DOMAIN calls[i].row.Hurst_Exponent = {} => IsNaN(calls[i].row.Average_Hurst)
            /\ (/\ DOMAIN calls[i].row.Hurst_Exponent # {}
                /\ \A l \in DOMAIN calls[i].row.Hurst_Exponent :
                      ~IsNaN(calls[i].row.Hurst_Exponent[l])) =>
                  /\ Len(calls[i].row.Average_Hurst) = 2
                  /\ calls[i].row.Average_Hurst[2] = Cardinality(DOMAIN calls[i].row.Hurst_Exponent)

\* a spread of exactly 20 observations, the first lag, has a bundle with an
\* empty Hurst map and the mean NaN, and is not emitted
C23_Witness ==
    /\ strategies_returned
    /\ \E i \in 1..Len(calls) :
          /\ calls[i].returned = "stats"
          /\ calls[i].series1.rows = strategy_lags[1]
          /\ DOMAIN calls[i].row.Hurst_Exponent = {}
          /\ IsNaN(calls[i].row.Average_Hurst)
          /\ ~emitted_for(calls[i])

\* the series has at most one distinct value
constant_series(series) == series.nunique <= 1

\* the series has two distinct values or more and adfuller raises on it
adfuller_raises_on(series) == series.nunique > 1 /\ IsNaN(series.adf_pvalue)

\* adfuller returns on the series, with a p-value strictly above the level
above_the_level(series) ==
    /\ series.nunique > 1
    /\ ~IsNaN(series.adf_pvalue)
    /\ series.adf_pvalue[1] > significance_level

\* the judgement the series is to get: non-stationary when it is constant,
\* when adfuller raises, and otherwise exactly when the p-value is above
\* the level
judged_non_stationary(series) ==
    constant_series(series) \/ adfuller_raises_on(series) \/ above_the_level(series)

embargo_step == (GridRows(0, df.last - df.first) * pct_embargo) \div 100

\* the mapping has n entries, the one at position i for the date at position
\* i and with the date at position min(i + step, n)
mapped_step_later(n, step) ==
    /\ Len(embargo_times) = n
    /\ \A i \in 1..n :
          /\ embargo_times[i][1] = i
          /\ embargo_times[i][2] = Min2(i + step, n)
          /\ embargo_times[i][2] >= i
          /\ step = 0 => embargo_times[i][2] = i
          /\ i > 1 => embargo_times[i][2] >= embargo_times[i - 1][2]

\* C25: the embargo mapping computed on entering a window has one entry for
\* each of the n dates of the whole panel, in the order of the dates and none
\* twice; the date at position i is mapped to the date at position
\* min(i + step, n), to itself when step is 0, so never to an earlier date,
\* and a later date never to an earlier one than a date before it; the
\* mapping depends on the panel alone, and is the same in every window.
C25_EmbargoMapping ==
    pc = "no_cluster" => mapped_step_later(GridRows(0, df.last - df.first), embargo_step)

\* the run is in its second window or a later one, of a panel of 913 dates:
\* the step is 9, the first date is mapped to the tenth and each of the last
\* ten to the last
C25_Witness ==
    /\ pc = "no_cluster"
    /\ windows_run >= 2
    /\ embargo_step = 9
    /\ Len(embargo_times) = 913
    /\ embargo_times[1] = <<1, 10>>
    /\ \A i \in 904..913 : embargo_times[i] = <<i, 913>>

====
